---- MODULE Spec2Model ----
(***************************************************************************)
(* Verification model of the block editor components:                       *)
(*   - the inline Markdown autoformatter of ParagraphBlock                  *)
(*     (convertInlineMarkdown), checked as a pure function under FormatSpec; *)
(*   - the editing surface made of root ParagraphBlocks, NestedBlocks in a   *)
(*     container, the store they talk to and the toolbar's block items,      *)
(*     checked under Spec.                                                   *)
(* Markup strings are sequences of tokens: one token per character, and one  *)
(* token per tag the formatter inserts (a tag holds none of the delimiter    *)
(* characters, so a regular expression treats it like any other text).       *)
(***************************************************************************)
EXTENDS Integers, Sequences, FiniteSets, TLC

\* ------------------------------------------------------------------------
\* Bounds
\* ------------------------------------------------------------------------
\* longest input string given to the formatter in FormatSpec
MaxLen == 5

\* ------------------------------------------------------------------------
\* Inline autoformatter (ParagraphBlock.jsx, convertInlineMarkdown)
\* ------------------------------------------------------------------------
STAR == "*"
TILDE == "~"
\* the backtick character (a TLA+ string cannot hold it, so it is named)
TICK == "backtick"
Delims == {STAR, TILDE, TICK}
\* characters an input string is made of
Alphabet == {"a", STAR, TILDE, TICK}

StrongOpen == "<strong>"
StrongClose == "</strong>"
EmOpen == "<em>"
EmClose == "</em>"
SOpen == "<s>"
SClose == "</s>"
CodeOpen == "<code class=\"bg-gray-100 px-1 rounded text-sm font-mono\">"
CodeClose == "</code>"

\* A pattern  D{width} ([^D]+) D{width}, optionally guarded by the
\* lookbehind (?<!D) and the lookahead (?!D); min is the least length of
\* the captured group (+ is 1).
boldPatternOneStar ==
    [delim |-> STAR, width |-> 1, guarded |-> FALSE, min |-> 1,
     open |-> StrongOpen, close |-> StrongClose]

boldPattern ==
    [delim |-> STAR, width |-> 2, guarded |-> FALSE, min |-> 1,
     open |-> StrongOpen, close |-> StrongClose]

italicPattern ==
    [delim |-> STAR, width |-> 1, guarded |-> TRUE, min |-> 1,
     open |-> EmOpen, close |-> EmClose]

strikePattern ==
    [delim |-> TILDE, width |-> 2, guarded |-> FALSE, min |-> 1,
     open |-> SOpen, close |-> SClose]

codePatternEmptyGroup ==
    [delim |-> TICK, width |-> 1, guarded |-> FALSE, min |-> 0,
     open |-> CodeOpen, close |-> CodeClose]

codePattern ==
    [delim |-> TICK, width |-> 1, guarded |-> FALSE, min |-> 1,
     open |-> CodeOpen, close |-> CodeClose]

\* s[i..i+w-1] are all the character d
IsRun(s, i, w, d) ==
    /\ i >= 1
    /\ i + w - 1 <= Len(s)
    /\ \A k \in i..(i + w - 1) : s[k] = d

\* first position >= i holding d, or Len(s)+1: where the greedy [^d]+ stops
RECURSIVE RunEnd(_, _, _)
RunEnd(s, i, d) ==
    IF i > Len(s) \/ s[i] = d THEN i ELSE RunEnd(s, i + 1, d)

\* The regular expression p tried at position i of s: the position just
\* after the match, or 0 when there is no match at i.  The group [^d]+ is
\* greedy and a shorter group can never be followed by d, so the maximal
\* run is the only candidate.
MatchEnd(p, s, i) ==
    LET c == i + p.width
        e == RunEnd(s, c, p.delim)
    IN  IF /\ IsRun(s, i, p.width, p.delim)
           /\ (p.guarded => (i = 1 \/ s[i - 1] # p.delim))
           /\ e - c >= p.min
           /\ IsRun(s, e, p.width, p.delim)
           /\ (p.guarded => (e + p.width > Len(s) \/ s[e + p.width] # p.delim))
        THEN e + p.width
        ELSE 0

\* pattern.test(s)
Test(p, s) == \E i \in 1..Len(s) : MatchEnd(p, s, i) # 0

\* s.replace(pattern, open + "$1" + close) with the g flag: scan from the
\* left, replace a match and go on after it, else keep one character
RECURSIVE ReplaceFrom(_, _, _)
ReplaceFrom(p, s, i) ==
    IF i > Len(s) THEN << >>
    ELSE LET m == MatchEnd(p, s, i)
         IN  IF m # 0
             THEN <<p.open>> \o SubSeq(s, i + p.width, m - p.width - 1)
                      \o <<p.close>> \o ReplaceFrom(p, s, m)
             ELSE <<s[i]>> \o ReplaceFrom(p, s, i + 1)

Replace(p, s) == ReplaceFrom(p, s, 1)

\* one  if (pattern.test(converted)) { converted = ...; changed = true }
StepKeepsChanged(p, r) ==
    IF Test(p, r.converted)
    THEN [converted |-> Replace(p, r.converted), changed |-> r.changed]
    ELSE r

Step(p, r) ==
    IF Test(p, r.converted)
    THEN [converted |-> Replace(p, r.converted), changed |-> TRUE]
    ELSE r

convertInlineMarkdown(html) ==
    Step(codePattern,
        Step(strikePattern,
            Step(italicPattern,
                Step(boldPattern, [converted |-> html, changed |-> FALSE]))))

\* ------------------------------------------------------------------------
\* The formatter as a pure function: FormatSpec
\* ------------------------------------------------------------------------
VARIABLES
    html,       \* the string given to convertInlineMarkdown
    first,      \* convertInlineMarkdown(html)
    second,     \* convertInlineMarkdown(first.converted)
    fpc         \* "idle" | "input" | "formatted" | "reformatted"

fvars == <<html, first, second, fpc>>

\* state of the editing surface (see Spec below)
VARIABLES
    rootOrder,          \* document.blocks: the root blocks, in order
    blocks,             \* id -> [type, content, properties, parentId,
                        \*        children]
    nextId,             \* next fresh block id
    activeBlockId,      \* the store's active block, NoBlock when none
    innerHTML,          \* contentRef.current.innerHTML of each mounted block
    initialContentRef,  \* NestedBlock: content last committed, per block
    domFocus,           \* the editable element holding the DOM focus
    cursor,             \* caret offset inside the focused element, as the
                        \* last handler or effect left it
    calls,              \* calls that handler made on the store / its props
    lastResult,         \* outcome of the last repository operation
    propagated,         \* that key event went on to the parent's handler
    edits               \* input events so far

evars == <<rootOrder, blocks, nextId, activeBlockId, innerHTML,
           initialContentRef, domFocus, cursor, calls, lastResult,
           propagated, edits>>

\* state of a drag gesture over the root blocks (see DragSpec below)
VARIABLES
    dragActive,         \* useSortable: active.id, the block being dragged
    dragOver,           \* the block the pointer is over, NoBlock when none
    pointerHalf,        \* "top" | "bottom": the half of it the pointer is in
    orderBefore         \* the root order when the gesture started

dvars == <<dragActive, dragOver, pointerHalf, orderBefore>>

\* state of the toolbar More menu (see MenuSpec below)
VARIABLES
    isOpen,             \* ToolbarMoreMenu: useState(false)
    activeSubmenu,      \* ToolbarMoreMenu: useState(null)
    currentTextColor,   \* ToolbarMoreMenu: useState(null)
    currentBgColor,     \* ToolbarMoreMenu: useState(null)
    hasSelection,       \* the hasSelection prop
    pointer             \* the color row the mouse pointer is over

mvars == <<isOpen, activeSubmenu, currentTextColor, currentBgColor,
           hasSelection, pointer>>

\* state of the useMobile hook (see MobileSpec below)
VARIABLES
    windowSize,         \* useMobile: useState({width, height})
    window,             \* window.innerWidth and window.innerHeight
    timers,             \* ids of the timeouts that are pending
    timeoutId,          \* let timeoutId of the resize effect
    nextTimer,          \* the id the next setTimeout returns
    mounted,            \* the resize effect has run, its cleanup has not
    sinceResize         \* windowSize updates since the last resize event

wvars == <<windowSize, window, timers, timeoutId, nextTimer, mounted,
           sinceResize>>

vars == <<fvars, evars, dvars, mvars, wvars>>

NoResult == [converted |-> << >>, changed |-> FALSE]

\* "**bold** and *it*alic"
Scenario5 ==
    <<"*", "*", "b", "o", "l", "d", "*", "*", " ", "a", "n", "d", " ",
      "*", "i", "t", "*", "a", "l", "i", "c">>

Inputs == UNION {[1..n -> Alphabet] : n \in 0..MaxLen} \cup {Scenario5}

FormatInit ==
    /\ html \in Inputs
    /\ first = NoResult
    /\ second = NoResult
    /\ fpc = "input"

FormatIdle ==
    /\ html = << >>
    /\ first = NoResult
    /\ second = NoResult
    /\ fpc = "idle"

\* format applied to the input
Format ==
    /\ fpc = "input"
    /\ first' = convertInlineMarkdown(html)
    /\ fpc' = "formatted"
    /\ UNCHANGED <<html, second, evars, dvars, mvars, wvars>>

\* format applied to its own output
Reformat ==
    /\ fpc = "formatted"
    /\ second' = convertInlineMarkdown(first.converted)
    /\ fpc' = "reformatted"
    /\ UNCHANGED <<html, first, evars, dvars, mvars, wvars>>

\* ------------------------------------------------------------------------
\* Properties of the formatter
\* ------------------------------------------------------------------------
Patterns == {boldPattern, italicPattern, strikePattern, codePattern}

\* order of application: bold, italic, strikethrough, code
Rank(t) ==
    CASE t \in {StrongOpen, StrongClose} -> 1
      [] t \in {EmOpen, EmClose} -> 2
      [] t \in {SOpen, SClose} -> 3
      [] t \in {CodeOpen, CodeClose} -> 4
      [] OTHER -> 0

OpenTags == {StrongOpen, EmOpen, SOpen, CodeOpen}
CloseTags == {StrongClose, EmClose, SClose, CodeClose}
CloseOf(t) ==
    CASE t = StrongOpen -> StrongClose
      [] t = EmOpen -> EmClose
      [] t = SOpen -> SClose
      [] t = CodeOpen -> CodeClose

\* tags are balanced and properly nested: every closing tag closes the
\* innermost open one, and nothing stays open
RECURSIVE Nested(_, _, _)
Nested(s, i, stack) ==
    IF i > Len(s) THEN stack = << >>
    ELSE IF s[i] \in OpenTags THEN Nested(s, i + 1, <<s[i]>> \o stack)
    ELSE IF s[i] \in CloseTags
         THEN /\ stack # << >>
              /\ CloseOf(Head(stack)) = s[i]
              /\ Nested(s, i + 1, Tail(stack))
    ELSE Nested(s, i + 1, stack)

WellNested(s) == Nested(s, 1, << >>)

\* the delimiter of p has a closing pair in s: two runs of the delimiter
\* with a non-empty text free of the delimiter character between them
\* (and, for italic, no further star next to either run)
HasPair(p, s) ==
    \E i \in 1..Len(s) : \E j \in (i + p.width + 1)..Len(s) :
        /\ IsRun(s, i, p.width, p.delim)
        /\ IsRun(s, j, p.width, p.delim)
        /\ \A k \in (i + p.width)..(j - 1) : s[k] # p.delim
        /\ p.guarded => /\ (i = 1 \/ s[i - 1] # p.delim)
                        /\ (j + p.width > Len(s) \/ s[j + p.width] # p.delim)

Count(d, s) == Cardinality({k \in 1..Len(s) : s[k] = d})

\* C1: format is idempotent: formatting the converted string again returns
\* it unchanged and reports changed = false.
C1_Idempotent ==
    fpc = "reformatted" =>
        second = [converted |-> first.converted, changed |-> FALSE]

\* C2: after one pass the tags the formatter inserted are balanced and
\* properly nested (no two inserted spans cross).
C2_WellFormed ==
    fpc # "input" => WellNested(first.converted)

\* C3: unterminated delimiters are left verbatim: an input in which no
\* delimiter has a closing pair comes back unchanged with changed = false,
\* and the characters of a delimiter without a closing pair all appear in
\* the output of any input.
C3_UnterminatedVerbatim ==
    fpc # "input" =>
        /\ (\A p \in Patterns : ~HasPair(p, html))
               => first = [converted |-> html, changed |-> FALSE]
        /\ \A d \in Delims :
               (\A p \in Patterns : p.delim = d => ~HasPair(p, html))
                   => Count(d, first.converted) = Count(d, html)

\* an unterminated delimiter has gone through the formatter
C3_Witness ==
    /\ fpc = "formatted"
    /\ \A p \in Patterns : ~HasPair(p, html)
    /\ Len(html) >= 3
    /\ \E d \in Delims : Count(d, html) >= 2

\* C4: "**bold** and *it*alic" becomes bold "bold", literal " and ",
\* italic "it" and literal "alic", with changed = true.
C4_Scenario5 ==
    (fpc # "input" /\ html = Scenario5) =>
        first = [converted |->
                    <<StrongOpen, "b", "o", "l", "d", StrongClose,
                      " ", "a", "n", "d", " ",
                      EmOpen, "i", "t", EmClose, "a", "l", "i", "c">>,
                 changed |-> TRUE]

C4_Witness ==
    /\ fpc = "formatted"
    /\ html = Scenario5
    /\ first.changed

\* the span opened at i by a later pattern holds a tag of an earlier one
SpanHoldsEarlier(s, i) ==
    \E j \in (i + 1)..Len(s) :
        /\ s[j] = CloseOf(s[i])
        /\ \A k \in (i + 1)..(j - 1) : s[k] # CloseOf(s[i])
        /\ \E k \in (i + 1)..(j - 1) : Rank(s[k]) # 0 /\ Rank(s[k]) < Rank(s[i])

\* C5: the patterns apply in the order bold, italic, strikethrough, code;
\* a later pattern never matches text that overlaps a span converted by an
\* earlier pattern of the same pass, and italic is never applied using a
\* star that is next to another star in the input.
C5_NoOverlap ==
    fpc # "input" =>
        /\ \A i \in 1..Len(first.converted) :
               first.converted[i] \in OpenTags
                   => ~SpanHoldsEarlier(first.converted, i)
        /\ ~HasPair(italicPattern, html)
               => \A i \in 1..Len(first.converted) :
                      first.converted[i] # EmOpen

\* ------------------------------------------------------------------------
\* The editing surface: Spec
\* ------------------------------------------------------------------------
\* ids the document can hand out (blocks 1..3 exist from the start)
MaxBlocks == 4
\* longest editable buffer, in tokens, the user is let to type
MaxBuf == 3
\* input events (edits of a buffer) explored in one run
MaxEdits == 1

NoBlock == 0
TextTypes == {"Paragraph", "Heading1", "Task", "Quote"}
ContainerTypes == {"Columns"}
BR == "<br>"
\* characters typed into a root block and into a nested block
ParaChars == {TICK}
NestedChars == {"a"}
\* key events the user causes in a root block, and in a nested block
Key(key, shiftKey) == [key |-> key, shiftKey |-> shiftKey]
ParaKeys == {Key("Enter", FALSE), Key("ArrowUp", FALSE),
             Key("ArrowDown", FALSE)}
NestedKeys == {Key("Enter", FALSE), Key("Enter", TRUE), Key("Tab", FALSE),
               Key("Backspace", FALSE), Key("ArrowUp", FALSE),
               Key("ArrowDown", FALSE), Key("a", FALSE)}

\* a block's properties: a mapping from the keys that are set to values
NoProperties == [key \in {} |-> FALSE]

Call(op, id, content) == [op |-> op, id |-> id, content |-> content]

\* ---- sequences ----
InsertAt(s, i, x) == SubSeq(s, 1, i - 1) \o <<x>> \o SubSeq(s, i, Len(s))
RemoveAt(s, i) == SubSeq(s, 1, i - 1) \o SubSeq(s, i + 1, Len(s))
IndexOf(s, x) == CHOOSE i \in 1..Len(s) : s[i] = x
Without(f, ids) == [x \in (DOMAIN f) \ ids |-> f[x]]
Range(s) == {s[i] : i \in 1..Len(s)}

\* ---- the document ----
Exists(id) == id \in DOMAIN blocks
IsRoot(id) == Exists(id) /\ blocks[id].parentId = NoBlock
IsNested(id) == Exists(id) /\ blocks[id].parentId # NoBlock
IsText(id) == Exists(id) /\ blocks[id].type \in TextTypes
\* a root text block is rendered by ParagraphBlock, a text block inside a
\* container by NestedBlock
IsParagraph(id) == IsRoot(id) /\ IsText(id)
IsNestedText(id) == IsNested(id) /\ IsText(id)

\* NestedBlock: const isActive = activeBlockId === blockId
NestedIsActive(blockId) == activeBlockId = blockId

\* the isActive prop a root block is rendered with
IsActive(id) == activeBlockId = id

\* the blocks shown as active (highlighted background)
ShownActive ==
    {b \in DOMAIN innerHTML :
        IF IsNested(b) THEN NestedIsActive(b) ELSE IsActive(b)}

EditorIdle ==
    /\ rootOrder = << >>
    /\ blocks = << >>
    /\ nextId = 1
    /\ activeBlockId = NoBlock
    /\ innerHTML = << >>
    /\ initialContentRef = << >>
    /\ domFocus = NoBlock
    /\ cursor = 0
    /\ calls = << >>
    /\ lastResult = "none"
    /\ propagated = FALSE
    /\ edits = 0

DragIdle ==
    /\ dragActive = NoBlock
    /\ dragOver = NoBlock
    /\ pointerHalf = "top"
    /\ orderBefore = << >>

\* activeSubmenu null, and the null of the color palettes
NoSubmenu == "null"
NoColor == "null"

\* useMobile, first render outside a browser: width 1024, height 768
DefaultSize == [width |-> 1024, height |-> 768]

\* the More menu closed and the useMobile hook not mounted
ToolbarIdle ==
    /\ isOpen = FALSE
    /\ activeSubmenu = NoSubmenu
    /\ currentTextColor = NoColor
    /\ currentBgColor = NoColor
    /\ hasSelection = FALSE
    /\ pointer = "none"
    /\ windowSize = DefaultSize
    /\ window = DefaultSize
    /\ timers = {}
    /\ timeoutId = 0
    /\ nextTimer = 1
    /\ mounted = FALSE
    /\ sinceResize = 0

\* A loaded document: a root text block, and a Columns container holding one
\* nested text block; every component is mounted (its mount effects have
\* run) and no block is active yet.
EditorInit ==
    LET t1 == "Paragraph"
        t3 == "Task"
        c1 == <<TICK, "a">>
        c3 == << >>
    IN
        /\ rootOrder = <<1, 2>>
        /\ blocks = (1 :> [type |-> t1, content |-> c1,
                           properties |-> NoProperties,
                           parentId |-> NoBlock, children |-> << >>])
                 @@ (2 :> [type |-> "Columns", content |-> << >>,
                           properties |-> NoProperties,
                           parentId |-> NoBlock, children |-> <<3>>])
                 @@ (3 :> [type |-> t3, content |-> c3,
                           properties |-> NoProperties,
                           parentId |-> 2, children |-> << >>])
        /\ nextId = 4
        /\ activeBlockId = NoBlock
        /\ innerHTML = (1 :> c1) @@ (3 :> c3)
        /\ initialContentRef = (3 :> c3)
        /\ domFocus = NoBlock
        /\ cursor = 0
        /\ calls = << >>
        /\ lastResult = "none"
        /\ propagated = FALSE
        /\ edits = 0

\* ---- the repository and the focus coordinator ----
\* The store as one value, so that an operation maps a store to a store.
Store ==
    [rootOrder |-> rootOrder, blocks |-> blocks, nextId |-> nextId,
     active |-> activeBlockId, result |-> "none"]

OrderOf(st, id) ==
    IF st.blocks[id].parentId = NoBlock
    THEN st.rootOrder
    ELSE st.blocks[st.blocks[id].parentId].children

SetOrderOf(st, id, seq) ==
    IF st.blocks[id].parentId = NoBlock
    THEN [st EXCEPT !.rootOrder = seq]
    ELSE [st EXCEPT !.blocks[st.blocks[id].parentId].children = seq]

RECURSIVE Descendants(_, _)
Descendants(st, id) ==
    LET kids == Range(st.blocks[id].children)
    IN  kids \cup UNION {Descendants(st, c) : c \in kids}

\* setActive(id, offsetIntent); the intent is not kept: no component reads it
setActive(st, id, intent) == [st EXCEPT !.active = id]

updateContent(st, id, newContent) ==
    IF id \in DOMAIN st.blocks
    THEN [st EXCEPT !.blocks[id].content = newContent, !.result = "ok"]
    ELSE [st EXCEPT !.result = "NotFound"]

updateNestedBlock(st, id, newContent) == updateContent(st, id, newContent)

\* insertBlock(anchorId, type, initialContent, after)
insertBlock(st, anchorId, type, initialContent) ==
    IF anchorId \notin DOMAIN st.blocks
    THEN [st EXCEPT !.result = "NotFound"]
    ELSE LET new == st.nextId
             seq == OrderOf(st, anchorId)
             withNew == [st EXCEPT
                 !.blocks = st.blocks @@
                     (new :> [type |-> type, content |-> initialContent,
                              properties |-> NoProperties,
                              parentId |-> st.blocks[anchorId].parentId,
                              children |-> << >>]),
                 !.nextId = new + 1,
                 !.result = "ok"]
         IN  SetOrderOf(withNew, anchorId,
                        InsertAt(seq, IndexOf(seq, anchorId) + 1, new))

deleteBlockUnguarded(st, id) ==
    IF id \notin DOMAIN st.blocks
    THEN [st EXCEPT !.result = "NotFound"]
    ELSE LET seq == OrderOf(st, id)
             cut == SetOrderOf(st, id, RemoveAt(seq, IndexOf(seq, id)))
         IN  [cut EXCEPT
                 !.blocks = Without(cut.blocks, {id} \cup Descendants(st, id)),
                 !.result = "ok"]

deleteBlock(st, id) ==
    IF id \notin DOMAIN st.blocks
    THEN [st EXCEPT !.result = "NotFound"]
    ELSE IF st.blocks[id].parentId = NoBlock /\ Len(st.rootOrder) = 1
    THEN [st EXCEPT !.result = "InvariantViolation"]
    ELSE deleteBlockUnguarded(st, id)

\* the block that takes over when id goes away: the previous sibling, the
\* next one when id is the first, the container when id was its only child
Survivor(st, id) ==
    LET seq == OrderOf(st, id)
        i == IndexOf(seq, id)
    IN  IF i > 1 THEN seq[i - 1]
        ELSE IF i < Len(seq) THEN seq[i + 1]
        ELSE st.blocks[id].parentId

Degrade(type) == IF type \in {"Task", "Quote"} THEN "Paragraph" ELSE type

Min(a, b) == IF a < b THEN a ELSE b

\* Split at offset k: the block keeps the left part, a new block with the
\* right part follows it and becomes active with the cursor intent "start"
Split(st, id, k) ==
    IF id \notin DOMAIN st.blocks
    THEN [st EXCEPT !.result = "NotFound"]
    ELSE LET c == st.blocks[id].content
             left == SubSeq(c, 1, k)
             right == SubSeq(c, k + 1, Len(c))
             new == st.nextId
             ins == insertBlock(st, id, Degrade(st.blocks[id].type), right)
         IN  setActive(updateContent(ins, id, left), new, "start")

\* ArrowUp / ArrowDown at a content edge
Navigate(st, id, key) ==
    IF id \notin DOMAIN st.blocks
    THEN [st EXCEPT !.result = "NotFound"]
    ELSE LET seq == OrderOf(st, id)
             i == IndexOf(seq, id)
         IN  IF key = "ArrowUp" /\ i > 1
             THEN [setActive(st, seq[i - 1], "end") EXCEPT !.result = "ok"]
             ELSE IF key = "ArrowDown" /\ i < Len(seq)
             THEN [setActive(st, seq[i + 1], "start") EXCEPT !.result = "ok"]
             ELSE st

\* the editor's key handler, given the key event of the active root block
EditorKeyDown(st, id, key, k, atStart, atEnd) ==
    CASE key = "Enter" -> Split(st, id, k)
      [] key = "ArrowUp" /\ atStart -> Navigate(st, id, key)
      [] key = "ArrowDown" /\ atEnd -> Navigate(st, id, key)
      [] OTHER -> st

\* ---- the components ----

\* ParagraphBlock, effect on isActive: focus, then collapse the range to
\* the end of the content
ActivationCursor(buf) == Len(buf)

\* ParagraphBlock, effect on content: the buffer is written from the content
\* prop while isInitialMount.current is true, which the first run ends
ParagraphContentEffectAlways(isInitialMount, buf, content) == content

ParagraphContentEffect(isInitialMount, buf, content) ==
    IF isInitialMount THEN content ELSE buf

\* NestedBlock, effect on block: the buffer is written when it is empty
NestedContentEffect(buf, content) == IF buf = << >> THEN content ELSE buf

\* NestedBlock.handleBlur: the buffer differs from the content last
\* committed
BlurCommits(id) ==
    /\ id \in DOMAIN initialContentRef
    /\ innerHTML[id] # initialContentRef[id]

\* the store after the blur event of the element el (only a NestedBlock
\* handles blur)
AfterBlur(st, el) ==
    IF BlurCommits(el) THEN updateNestedBlock(st, el, innerHTML[el]) ELSE st

BlurCalls(el) ==
    IF BlurCommits(el)
    THEN <<Call("updateNestedBlock", el, innerHTML[el])>>
    ELSE << >>

\* NestedBlock.handleBlur: initialContentRef.current = newContent
RefUnchangedAfterBlur(el) == initialContentRef

RefAfterBlur(el) ==
    IF BlurCommits(el)
    THEN [initialContentRef EXCEPT ![el] = innerHTML[el]]
    ELSE initialContentRef

\* NestedBlock.handleFocus: the id given to setActiveBlock
NestedFocusTargetParent(blockId) == blocks[blockId].parentId

NestedFocusTarget(blockId) == blockId

\* A root block becomes active (its isActive prop turns true, or it mounts
\* active): the effect of ParagraphBlock runs.
Activates(st) ==
    /\ st.active \in DOMAIN st.blocks
    /\ st.blocks[st.active].parentId = NoBlock
    /\ st.blocks[st.active].type \in TextTypes
    /\ (st.active # activeBlockId \/ st.active \notin DOMAIN innerHTML)

\* Re-render after the store became st: new blocks
\* mount (their buffer is written from the content once), removed ones
\* unmount, the effect of a newly active root block runs, and with it the
\* blur handler of a nested block that loses the focus to it.
Commit(st, cs, prop) ==
    LET loser == IF Activates(st) /\ domFocus # st.active
                    /\ domFocus \in DOMAIN st.blocks
                 THEN domFocus ELSE NoBlock
        st2 == IF loser # NoBlock
               THEN [AfterBlur(st, loser) EXCEPT !.result = st.result]
               ELSE st
        ref == IF loser # NoBlock THEN RefAfterBlur(loser)
               ELSE initialContentRef
        text == {b \in DOMAIN st2.blocks : st2.blocks[b].type \in TextTypes}
        nested == {b \in text : st2.blocks[b].parentId # NoBlock}
        mounts == text \ DOMAIN innerHTML
        buf == [b \in text |->
                  IF b \in mounts THEN << >> ELSE innerHTML[b]]
        html2 == [b \in text |->
                    IF b \in mounts \/ st2.blocks[b] # blocks[b]
                    THEN IF b \in nested
                         THEN NestedContentEffect(buf[b], st2.blocks[b].content)
                         ELSE ParagraphContentEffect(b \in mounts, buf[b],
                                                     st2.blocks[b].content)
                    ELSE innerHTML[b]]
        focus2 == IF Activates(st) THEN st.active
                  ELSE IF domFocus \in text THEN domFocus ELSE NoBlock
    IN  /\ rootOrder' = st2.rootOrder
        /\ blocks' = st2.blocks
        /\ nextId' = st2.nextId
        /\ activeBlockId' = st2.active
        /\ innerHTML' = html2
        /\ initialContentRef' =
               [b \in nested |-> IF b \in DOMAIN ref THEN ref[b]
                                 ELSE st2.blocks[b].content]
        /\ domFocus' = focus2
        /\ cursor' = IF Activates(st) THEN ActivationCursor(html2[st.active])
                     ELSE IF focus2 = NoBlock THEN 0
                     ELSE cursor
        /\ calls' = cs \o (IF loser # NoBlock THEN BlurCalls(loser) ELSE << >>)
        /\ lastResult' = st2.result
        /\ propagated' = prop
        /\ UNCHANGED edits

\* the offsets a click puts the caret at: the start and the end of the
\* buffer; typing moves the caret on from there
ClickOffsets(buf) == {0, Len(buf)}

\* The user clicks into (or tabs to) the root block id, caret at offset k.
\* The element that had the focus gets its blur event first; then
\* ParagraphBlock.handleFocus calls onFocus(id), which makes id active.
FocusParagraph(id, k) ==
    /\ IsParagraph(id)
    /\ domFocus # id
    /\ k \in ClickOffsets(innerHTML[id])
    /\ LET st == setActive(AfterBlur(Store, domFocus), id, "none")
       IN  /\ blocks' = st.blocks
           /\ activeBlockId' = st.active
           /\ initialContentRef' = RefAfterBlur(domFocus)
           /\ domFocus' = id
           /\ cursor' = IF Activates(st) THEN ActivationCursor(innerHTML[id])
                        ELSE k
           /\ calls' = BlurCalls(domFocus) \o <<Call("onFocus", id, << >>)>>
    /\ lastResult' = "none"
    /\ propagated' = FALSE
    /\ UNCHANGED <<rootOrder, nextId, innerHTML, edits>>
    /\ UNCHANGED <<fvars, dvars, mvars, wvars>>

\* The user clicks into the nested block id, caret at offset k: blur of the
\* element that had the focus, then NestedBlock.handleFocus.
FocusNested(id, k) ==
    /\ IsNestedText(id)
    /\ domFocus # id
    /\ k \in ClickOffsets(innerHTML[id])
    /\ LET st == setActive(AfterBlur(Store, domFocus),
                           NestedFocusTarget(id), "none")
       IN  /\ blocks' = st.blocks
           /\ activeBlockId' = st.active
           /\ initialContentRef' = RefAfterBlur(domFocus)
           /\ domFocus' = id
           /\ cursor' = k
           /\ calls' = BlurCalls(domFocus)
                          \o <<Call("setActiveBlock", NestedFocusTarget(id), << >>)>>
    /\ lastResult' = "none"
    /\ propagated' = FALSE
    /\ UNCHANGED <<rootOrder, nextId, innerHTML, edits>>
    /\ UNCHANGED <<fvars, dvars, mvars, wvars>>

\* The focused element loses the focus to something that is not a block.
Blur ==
    /\ domFocus # NoBlock
    /\ LET st == AfterBlur(Store, domFocus)
       IN  /\ blocks' = st.blocks
           /\ initialContentRef' = RefAfterBlur(domFocus)
           /\ calls' = BlurCalls(domFocus)
    /\ domFocus' = NoBlock
    /\ cursor' = 0
    /\ lastResult' = "none"
    /\ propagated' = FALSE
    /\ UNCHANGED <<rootOrder, nextId, activeBlockId, innerHTML, edits>>
    /\ UNCHANGED <<fvars, dvars, mvars, wvars>>

\* what the user's edit makes of the buffer: a character typed at the
\* caret, or the character before the caret deleted
Edited(buf, k, chars) ==
    {[html |-> InsertAt(buf, k + 1, c), cursor |-> k + 1] :
        c \in IF Len(buf) < MaxBuf THEN chars ELSE {}}
    \cup
    (IF k > 0 /\ buf[k] \in chars \cup {BR}
     THEN {[html |-> RemoveAt(buf, k), cursor |-> k - 1]}
     ELSE {})

\* ParagraphBlock.handleInput, last statement: onContentChange(id, newContent)
InputCallsNone(id, newContent) == << >>

InputCalls(id, newContent) == <<Call("onContentChange", id, newContent)>>

\* ParagraphBlock.handleInput: el.innerHTML = converted when the formatter
\* changed the string; the buffer the user edited stays otherwise
BufferAfterInput(r, edited) == IF r.changed THEN r.converted ELSE edited

\* ParagraphBlock.handleInput: newContent is el.innerHTML, or converted when
\* the formatter changed the string
newContentAsTyped(r, edited) == edited

newContent(r, edited) == IF r.changed THEN r.converted ELSE edited

\* ParagraphBlock.handleInput, after the user's edit of the buffer at the
\* caret
ParagraphInput(id) ==
    /\ IsParagraph(id)
    /\ domFocus = id
    /\ edits < MaxEdits
    /\ edits' = edits + 1
    /\ \E e \in Edited(innerHTML[id], cursor, ParaChars) :
        LET r == convertInlineMarkdown(e.html)
            sent == newContent(r, e.html)
            st == updateContent(Store, id, sent)
        IN  /\ innerHTML' = [innerHTML EXCEPT ![id] = BufferAfterInput(r, e.html)]
            /\ cursor' = IF r.changed THEN Len(r.converted) ELSE e.cursor
            /\ blocks' = st.blocks
            /\ calls' = InputCalls(id, sent)
            /\ lastResult' = st.result
    /\ propagated' = FALSE
    /\ UNCHANGED <<rootOrder, nextId, activeBlockId, initialContentRef,
                   domFocus>>
    /\ UNCHANGED <<fvars, dvars, mvars, wvars>>

\* An input event in a NestedBlock: the component has no input handler, the
\* edit stays in the buffer.
NestedInput(id) ==
    /\ IsNestedText(id)
    /\ domFocus = id
    /\ edits < MaxEdits
    /\ edits' = edits + 1
    /\ \E e \in Edited(innerHTML[id], cursor, NestedChars) :
        /\ innerHTML' = [innerHTML EXCEPT ![id] = e.html]
        /\ cursor' = e.cursor
    /\ calls' = << >>
    /\ lastResult' = "none"
    /\ propagated' = FALSE
    /\ UNCHANGED <<rootOrder, blocks, nextId, activeBlockId,
                   initialContentRef, domFocus>>
    /\ UNCHANGED <<fvars, dvars, mvars, wvars>>

\* NestedBlock.handleKeyDown: Enter without Shift inserts a line break at
\* the caret; every key event is stopped.
NestedEnterBreaksNever(e) == FALSE

NestedEnterBreaks(e) == e.key = "Enter" /\ ~e.shiftKey

\* NestedBlock.handleKeyDown, last statement: e.stopPropagation()
NestedStopsOnlyEnter(e) == e.key = "Enter" /\ ~e.shiftKey

NestedStopsPropagation(e) == TRUE

NestedKeyDown(id, e) ==
    /\ IsNestedText(id)
    /\ domFocus = id
    /\ e \in NestedKeys
    /\ NestedEnterBreaks(e) =>
           Len(innerHTML[id]) < MaxBuf /\ edits < MaxEdits
    /\ IF NestedEnterBreaks(e)
       THEN /\ innerHTML' = [innerHTML EXCEPT
                                ![id] = InsertAt(innerHTML[id], cursor + 1, BR)]
            /\ cursor' = cursor + 1
            /\ edits' = edits + 1
       ELSE UNCHANGED <<innerHTML, cursor, edits>>
    /\ propagated' = ~NestedStopsPropagation(e)
    /\ calls' = << >>
    /\ lastResult' = "none"
    /\ UNCHANGED <<rootOrder, blocks, nextId, activeBlockId,
                   initialContentRef, domFocus>>
    /\ UNCHANGED <<fvars, dvars, mvars, wvars>>

\* ParagraphBlock.handleKeyDown: the key goes to the editor's handler
\* through the onKeyDown prop.
ParagraphKeyDown(id, e) ==
    /\ IsParagraph(id)
    /\ domFocus = id
    /\ e \in ParaKeys
    /\ e.key = "Enter" => nextId <= MaxBlocks
    /\ LET st == EditorKeyDown(Store, id, e.key,
                               Min(cursor, Len(blocks[id].content)),
                               cursor = 0, cursor = Len(innerHTML[id]))
       IN  Commit(st, <<Call("onKeyDown", id, <<e.key>>)>>, TRUE)
    /\ UNCHANGED <<fvars, dvars, mvars, wvars>>

\* the editor's onDeleteBlock: delete the active block and make the
\* surviving neighbour active
onDeleteBlock(st) ==
    LET del == deleteBlock(st, st.active)
    IN  IF del.result = "ok"
        THEN setActive(del, Survivor(st, st.active), "end")
        ELSE del

\* ToolbarMoreMenu, item "Delete block": enabled while a block is active;
\* handleMenuItemClick runs the onDeleteBlock callback.
DeleteBlockItemClick ==
    /\ activeBlockId # NoBlock
    /\ Commit(onDeleteBlock(Store),
              <<Call("onDeleteBlock", activeBlockId, << >>)>>, FALSE)
    /\ UNCHANGED <<fvars, dvars, mvars, wvars>>

Next ==
    \/ \E id \in 1..MaxBlocks, k \in 0..MaxBuf : FocusParagraph(id, k)
    \/ \E id \in 1..MaxBlocks, k \in 0..MaxBuf : FocusNested(id, k)
    \/ Blur
    \/ \E id \in 1..MaxBlocks : ParagraphInput(id)
    \/ \E id \in 1..MaxBlocks : NestedInput(id)
    \/ \E id \in 1..MaxBlocks, e \in NestedKeys : NestedKeyDown(id, e)
    \/ \E id \in 1..MaxBlocks, e \in ParaKeys : ParagraphKeyDown(id, e)
    \/ DeleteBlockItemClick

\* the editor with a loaded document; the formatter's variables rest
Init == EditorInit /\ FormatIdle /\ DragIdle /\ ToolbarIdle

Spec == Init /\ [][Next]_vars

FormatNext == Format \/ Reformat

\* the formatter on its own; the editor's variables rest
FormatSpecInit == FormatInit /\ EditorIdle /\ DragIdle /\ ToolbarIdle

FormatSpec == FormatSpecInit /\ [][FormatNext]_vars

\* ------------------------------------------------------------------------
\* A NestedBlock on its own: NestedSpec
\* ------------------------------------------------------------------------
\* updateNestedBlock(id, {properties}): the record takes the properties
\* object it is given; its other fields stay
updateNestedProperties(st, id, properties) ==
    IF id \in DOMAIN st.blocks
    THEN [st EXCEPT !.blocks[id].properties = properties, !.result = "ok"]
    ELSE [st EXCEPT !.result = "NotFound"]

\* NestedBlock, the checkbox of a Task: checked={block.properties?.checked
\* || false}
CheckboxShown(properties) ==
    "checked" \in DOMAIN properties /\ properties["checked"]

\* NestedBlock.handleCheckboxChange, the properties it sends:
\* {...block.properties, checked: e.target.checked}
CheckboxPatchOnlyChecked(properties, checked) == [checked |-> checked]

CheckboxPatch(properties, checked) ==
    [key \in DOMAIN properties \cup {"checked"} |->
        IF key = "checked" THEN checked ELSE properties[key]]

\* the buffers after a re-render with the records of st: the content
\* effect of every NestedBlock whose record changed runs
BuffersAfter(st) ==
    [b \in DOMAIN innerHTML |->
        IF b \in DOMAIN st.blocks /\ st.blocks[b].parentId # NoBlock
              /\ st.blocks[b] # blocks[b]
        THEN NestedContentEffect(innerHTML[b], st.blocks[b].content)
        ELSE innerHTML[b]]

\* The user toggles the checkbox of the nested Task block id. The focus is
\* not in an editable element: a click on the checkbox, or tabbing to it,
\* has taken it away (Blur) before the change event.
CheckboxChange(id) ==
    /\ IsNestedText(id)
    /\ blocks[id].type = "Task"
    /\ domFocus = NoBlock
    /\ LET checked == ~CheckboxShown(blocks[id].properties)
           patch == CheckboxPatch(blocks[id].properties, checked)
           st == updateNestedProperties(Store, id, patch)
       IN  /\ blocks' = st.blocks
           /\ innerHTML' = BuffersAfter(st)
           /\ calls' = <<Call("updateNestedBlock", id, [properties |-> patch])>>
           /\ lastResult' = st.result
    /\ propagated' = FALSE
    /\ UNCHANGED <<rootOrder, nextId, activeBlockId, initialContentRef,
                   domFocus, cursor, edits>>
    /\ UNCHANGED <<fvars, dvars, mvars, wvars>>

\* A document whose Columns container holds one nested Task block, with or
\* without content and properties; the components are mounted.
NestedInit ==
    \E c3 \in {<< >>, <<"a">>},
       p3 \in {NoProperties, [color |-> "red"]} :
        /\ rootOrder = <<1, 2>>
        /\ blocks = (1 :> [type |-> "Paragraph", content |-> << >>,
                           properties |-> NoProperties,
                           parentId |-> NoBlock, children |-> << >>])
                 @@ (2 :> [type |-> "Columns", content |-> << >>,
                           properties |-> NoProperties,
                           parentId |-> NoBlock, children |-> <<3>>])
                 @@ (3 :> [type |-> "Task", content |-> c3,
                           properties |-> p3,
                           parentId |-> 2, children |-> << >>])
        /\ nextId = 4
        /\ activeBlockId = NoBlock
        /\ innerHTML = (1 :> << >>) @@ (3 :> c3)
        /\ initialContentRef = (3 :> c3)
        /\ domFocus = NoBlock
        /\ cursor = 0
        /\ calls = << >>
        /\ lastResult = "none"
        /\ propagated = FALSE
        /\ edits = 0

\* updateProperties(id, patch): shallow merge of patch into the properties
updateProperties(st, id, patch) ==
    IF id \in DOMAIN st.blocks
    THEN [st EXCEPT
             !.blocks[id].properties =
                 [key \in DOMAIN st.blocks[id].properties \cup DOMAIN patch |->
                     IF key \in DOMAIN patch THEN patch[key]
                     ELSE st.blocks[id].properties[key]],
             !.result = "ok"]
    ELSE [st EXCEPT !.result = "NotFound"]

\* contents and patches another collaborator gives the repository
StoreContents == {<< >>, <<"a">>}
StorePatches == {[background |-> "yellow"]}

\* what the repository can be asked to make of the record of block id
StoreUpdates(id) ==
    {updateContent(Store, id, c) : c \in StoreContents}
        \cup {updateProperties(Store, id, patch) : patch \in StorePatches}

\* Another collaborator changes the record of the nested block id through
\* the repository, whatever the state of its buffer; the components
\* re-render.
StoreUpdate(id) ==
    /\ IsNestedText(id)
    /\ \E st \in StoreUpdates(id) :
        /\ st.blocks[id] # blocks[id]
        /\ blocks' = st.blocks
        /\ innerHTML' = BuffersAfter(st)
        /\ lastResult' = st.result
    /\ calls' = << >>
    /\ propagated' = FALSE
    /\ UNCHANGED <<rootOrder, nextId, activeBlockId, initialContentRef,
                   domFocus, cursor, edits>>
    /\ UNCHANGED <<fvars, dvars, mvars, wvars>>

NestedNext ==
    \/ \E id \in 1..MaxBlocks, k \in 0..MaxBuf : FocusNested(id, k)
    \/ Blur
    \/ \E id \in 1..MaxBlocks : NestedInput(id)
    \/ \E id \in 1..MaxBlocks, e \in NestedKeys : NestedKeyDown(id, e)
    \/ \E id \in 1..MaxBlocks : CheckboxChange(id)
    \/ \E id \in 1..MaxBlocks : StoreUpdate(id)

NestedSpecInit == NestedInit /\ FormatIdle /\ DragIdle /\ ToolbarIdle

NestedSpec == NestedSpecInit /\ [][NestedNext]_vars

\* ------------------------------------------------------------------------
\* Dragging root blocks: DragSpec
\* ------------------------------------------------------------------------
\* root blocks of the document a block is dragged in
DragBlocks == 3

\* useSortable({ id: block.id }): isDragging and isOver of the block
isDragging(blockId) == dragActive # NoBlock /\ dragActive = blockId
isOver(blockId) == dragActive # NoBlock /\ dragOver = blockId

\* SortableBlock: isOver && !isDragging && active?.id !== block.id
showDropIndicatorWhenOver(blockId) == isOver(blockId)

showDropIndicator(blockId) ==
    isOver(blockId) /\ ~isDragging(blockId) /\ dragActive # blockId

\* SortableBlock: the indicator line is drawn at top: -2px of the block
IndicatorSide(blockId) == "above"

\* Reorder Engine: the side of the hovered block the drop resolves to
ResolvedSide == IF pointerHalf = "top" THEN "above" ELSE "below"

\* moveBlock(id, null, destinationIndex) without taking id out of the order
moveBlockKeepingSource(order, id, hovered, side) ==
    LET j == IndexOf(order, hovered)
    IN  InsertAt(order, IF side = "above" THEN j ELSE j + 1, id)

\* moveBlock(id, null, destinationIndex) for a drop on the given side of
\* the hovered root block: id leaves the order and is inserted there
moveBlock(order, id, hovered, side) ==
    LET rest == RemoveAt(order, IndexOf(order, id))
        j == IndexOf(rest, hovered)
    IN  InsertAt(rest, IF side = "above" THEN j ELSE j + 1, id)

\* the order a release gives: a self-drop and a release off any block
\* change nothing
Dropped ==
    IF dragOver = NoBlock \/ dragOver = dragActive
          \/ dragOver \notin Range(rootOrder)
    THEN rootOrder
    ELSE moveBlock(rootOrder, dragActive, dragOver, ResolvedSide)

\* the pointer goes down on the handle of the root block id
DragStart(id) ==
    /\ dragActive = NoBlock
    /\ id \in Range(rootOrder)
    /\ dragActive' = id
    /\ dragOver' = id
    /\ pointerHalf' \in {"top", "bottom"}
    /\ orderBefore' = rootOrder
    /\ UNCHANGED <<fvars, evars, mvars, wvars>>

\* the pointer moves over the given half of the root block id, or off every
\* block
DragMove(id, half) ==
    /\ dragActive # NoBlock
    /\ id \in Range(rootOrder) \cup {NoBlock}
    /\ half \in (IF id = NoBlock THEN {"top"} ELSE {"top", "bottom"})
    /\ dragOver' = id
    /\ pointerHalf' = half
    /\ UNCHANGED <<dragActive, orderBefore>>
    /\ UNCHANGED <<fvars, evars, mvars, wvars>>

\* the pointer is released
DragEnd ==
    /\ dragActive # NoBlock
    /\ rootOrder' = Dropped
    /\ dragActive' = NoBlock
    /\ dragOver' = NoBlock
    /\ pointerHalf' = "top"
    /\ UNCHANGED orderBefore
    /\ UNCHANGED <<blocks, nextId, activeBlockId, innerHTML,
                   initialContentRef, domFocus, cursor, calls, lastResult,
                   propagated, edits>>
    /\ UNCHANGED <<fvars, mvars, wvars>>

\* a document of DragBlocks root paragraphs, none being dragged
DragInit ==
    /\ rootOrder = [i \in 1..DragBlocks |-> i]
    /\ blocks = [b \in 1..DragBlocks |->
                    [type |-> "Paragraph", content |-> << >>,
                     properties |-> NoProperties,
                     parentId |-> NoBlock, children |-> << >>]]
    /\ nextId = DragBlocks + 1
    /\ activeBlockId = NoBlock
    /\ innerHTML = [b \in 1..DragBlocks |-> << >>]
    /\ initialContentRef = << >>
    /\ domFocus = NoBlock
    /\ cursor = 0
    /\ calls = << >>
    /\ lastResult = "none"
    /\ propagated = FALSE
    /\ edits = 0

DragNext ==
    \/ \E id \in 1..DragBlocks : DragStart(id)
    \/ \E id \in 0..DragBlocks, half \in {"top", "bottom"} : DragMove(id, half)
    \/ DragEnd

DragSpecInit == DragInit /\ FormatIdle /\ DragIdle /\ ToolbarIdle

DragSpec == DragSpecInit /\ [][DragNext]_vars

\* ------------------------------------------------------------------------
\* The useMobile hook: MobileSpec
\* ------------------------------------------------------------------------
\* setTimeout calls of one run
MaxTimers == 5

\* BREAKPOINTS.mobile
BREAKPOINTS_mobile == 640

\* sizes the browser window takes: a phone, a tablet, a desktop
WindowSizes ==
    {[width |-> 390, height |-> 844], [width |-> 768, height |-> 1024],
     [width |-> 1280, height |-> 800]}

\* const isMobile = windowSize.width < BREAKPOINTS.mobile
isMobile == windowSize.width < BREAKPOINTS_mobile

\* handleResize: clearTimeout(timeoutId), then timeoutId = setTimeout(...)
PendingAfterResizeUncleared(pending, id, fresh) == pending \cup {fresh}

PendingAfterResize(pending, id, fresh) == (pending \ {id}) \cup {fresh}

\* the cleanup of the resize effect: clearTimeout(timeoutId)
PendingAfterCleanup(pending, id) == pending \ {id}

\* handleResize, called by the effect when it runs and on every resize
\* event while the listener is registered
handleResize ==
    /\ nextTimer <= MaxTimers
    /\ timers' = PendingAfterResize(timers, timeoutId, nextTimer)
    /\ timeoutId' = nextTimer
    /\ nextTimer' = nextTimer + 1
    /\ sinceResize' = 0

\* The window takes another size. The resize event reaches handleResize
\* while the hook is mounted; after the cleanup no listener is left.
WindowResize(size) ==
    /\ size \in WindowSizes \ {window}
    /\ window' = size
    /\ IF mounted THEN handleResize
       ELSE UNCHANGED <<timers, timeoutId, nextTimer, sinceResize>>
    /\ calls' = << >>
    /\ UNCHANGED <<windowSize, mounted>>
    /\ UNCHANGED <<rootOrder, blocks, nextId, activeBlockId, innerHTML,
                   initialContentRef, domFocus, cursor, lastResult,
                   propagated, edits>>
    /\ UNCHANGED <<fvars, dvars, mvars>>

\* The timeout t expires (100 ms after it was set): its callback gives
\* setWindowSize the dimensions the window has now.
TimerFires(t) ==
    /\ t \in timers
    /\ timers' = timers \ {t}
    /\ windowSize' = window
    /\ sinceResize' = sinceResize + 1
    /\ calls' = << >>
    /\ UNCHANGED <<window, timeoutId, nextTimer, mounted>>
    /\ UNCHANGED <<rootOrder, blocks, nextId, activeBlockId, innerHTML,
                   initialContentRef, domFocus, cursor, lastResult,
                   propagated, edits>>
    /\ UNCHANGED <<fvars, dvars, mvars>>

\* The component using the hook unmounts: the cleanup of the effect runs.
Unmount ==
    /\ mounted
    /\ mounted' = FALSE
    /\ timers' = PendingAfterCleanup(timers, timeoutId)
    /\ calls' = << >>
    /\ UNCHANGED <<windowSize, window, timeoutId, nextTimer, sinceResize>>
    /\ UNCHANGED <<rootOrder, blocks, nextId, activeBlockId, innerHTML,
                   initialContentRef, domFocus, cursor, lastResult,
                   propagated, edits>>
    /\ UNCHANGED <<fvars, dvars, mvars>>

\* the hook after its first render and the first run of its effect:
\* windowSize is the size of the window, the listener is registered and
\* the timeout of the initial handleResize() is pending
MobileInit ==
    /\ window \in WindowSizes
    /\ windowSize = window
    /\ timers = {1}
    /\ timeoutId = 1
    /\ nextTimer = 2
    /\ mounted = TRUE
    /\ sinceResize = 0

\* the More menu closed, no selection
MenuIdle ==
    /\ isOpen = FALSE
    /\ activeSubmenu = NoSubmenu
    /\ currentTextColor = NoColor
    /\ currentBgColor = NoColor
    /\ hasSelection = FALSE
    /\ pointer = "none"

MobileNext ==
    \/ \E size \in WindowSizes : WindowResize(size)
    \/ \E t \in 1..MaxTimers : TimerFires(t)
    \/ Unmount

MobileSpecInit ==
    MobileInit /\ MenuIdle /\ EditorIdle /\ FormatIdle /\ DragIdle

MobileSpec == MobileSpecInit /\ [][MobileNext]_vars

\* ------------------------------------------------------------------------
\* The toolbar More menu: MenuSpec
\* ------------------------------------------------------------------------
\* the rows that open a color submenu, and the value activeSubmenu takes
ColorRows == {"textColor", "bgColor"}

\* COLOR_PALETTE and BACKGROUND_PALETTE: the null entry and one color each
Palette(row) ==
    IF row = "textColor" THEN {NoColor, "#ef4444"} ELSE {NoColor, "#fee2e2"}

\* onAlign arguments
Alignments == {"Left", "Center", "Right"}

\* the editor's other collaborators are at rest while the menu is used
MenuFrame ==
    /\ UNCHANGED <<rootOrder, blocks, nextId, innerHTML, initialContentRef,
                   domFocus, cursor, lastResult, propagated, edits>>
    /\ UNCHANGED <<fvars, dvars, wvars>>

\* setIsOpen(false); setActiveSubmenu(null): the menu content unmounts
CloseMenu ==
    /\ isOpen' = FALSE
    /\ activeSubmenu' = NoSubmenu
    /\ pointer' = "none"

\* trigger button: onClick={() => setIsOpen(!isOpen)}, by the mouse or, the
\* button having the focus, by the keyboard
TriggerClick ==
    /\ isOpen' = ~isOpen
    /\ pointer' = "none"
    /\ calls' = << >>
    /\ UNCHANGED <<activeSubmenu, currentTextColor, currentBgColor,
                   hasSelection, activeBlockId>>
    /\ MenuFrame

\* color row: onMouseEnter={() => !isMobile && setActiveSubmenu(row)}
RowMouseEnter(row) ==
    /\ isOpen
    /\ pointer # row
    /\ pointer' = row
    /\ activeSubmenu' = IF ~isMobile THEN row ELSE activeSubmenu
    /\ calls' = << >>
    /\ UNCHANGED <<isOpen, currentTextColor, currentBgColor, hasSelection,
                   activeBlockId>>
    /\ MenuFrame

\* color row: onMouseLeave={() => !isMobile && setActiveSubmenu(null)}
RowMouseLeave ==
    /\ isOpen
    /\ pointer # "none"
    /\ pointer' = "none"
    /\ activeSubmenu' = IF ~isMobile THEN NoSubmenu ELSE activeSubmenu
    /\ calls' = << >>
    /\ UNCHANGED <<isOpen, currentTextColor, currentBgColor, hasSelection,
                   activeBlockId>>
    /\ MenuFrame

\* color row: onClick={() => isMobile && setActiveSubmenu(
\*     activeSubmenu === row ? null : row)}; the MenuItem's own onClick
\* does nothing
RowClick(row) ==
    /\ isOpen
    /\ activeSubmenu' = IF isMobile
                        THEN (IF activeSubmenu = row THEN NoSubmenu ELSE row)
                        ELSE activeSubmenu
    /\ calls' = << >>
    /\ UNCHANGED <<isOpen, currentTextColor, currentBgColor, hasSelection,
                   pointer, activeBlockId>>
    /\ MenuFrame

\* {activeSubmenu === row && hasSelection && (<ColorPicker ... />)}
ColorPickerShownWithoutSelection(row) == isOpen /\ activeSubmenu = row

ColorPickerShown(row) == isOpen /\ activeSubmenu = row /\ hasSelection

\* <MenuItem disabled={!hasSelection} ...> of the three alignment items
AlignDisabled == ~hasSelection

\* <MenuItem disabled={!activeBlockId} ...> of Duplicate block and Delete
\* block
BlockItemDisabled == activeBlockId = NoBlock

\* ColorPicker button of the submenu of row: onSelect(color.value), which
\* is handleTextColorSelect or handleBgColorSelect, then onClose()
ColorClick(row, color) ==
    /\ ColorPickerShown(row)
    /\ color \in Palette(row)
    /\ IF row = "textColor"
       THEN /\ currentTextColor' = color
            /\ calls' = <<Call("onTextColor", NoBlock, <<color>>)>>
            /\ UNCHANGED currentBgColor
       ELSE /\ currentBgColor' = color
            /\ calls' = <<Call("onBackgroundColor", NoBlock, <<color>>)>>
            /\ UNCHANGED currentTextColor
    /\ activeSubmenu' = NoSubmenu
    /\ UNCHANGED <<isOpen, hasSelection, pointer, activeBlockId>>
    /\ MenuFrame

\* handleMenuItemClick(action): action?.(); setIsOpen(false);
\* setActiveSubmenu(null)
handleMenuItemClickStaysOpen(action) ==
    /\ calls' = <<action>>
    /\ activeSubmenu' = NoSubmenu
    /\ UNCHANGED <<isOpen, pointer>>

handleMenuItemClick(action) ==
    /\ calls' = <<action>>
    /\ CloseMenu

\* Align left / Center / Align right
AlignClick(alignment) ==
    /\ isOpen
    /\ ~AlignDisabled
    /\ handleMenuItemClick(Call("onAlign", NoBlock, <<alignment>>))
    /\ UNCHANGED <<currentTextColor, currentBgColor, hasSelection,
                   activeBlockId>>
    /\ MenuFrame

\* Duplicate block
DuplicateClick ==
    /\ isOpen
    /\ ~BlockItemDisabled
    /\ handleMenuItemClick(Call("onDuplicateBlock", NoBlock, << >>))
    /\ UNCHANGED <<currentTextColor, currentBgColor, hasSelection,
                   activeBlockId>>
    /\ MenuFrame

\* Delete block
DeleteClick ==
    /\ isOpen
    /\ ~BlockItemDisabled
    /\ handleMenuItemClick(Call("onDeleteBlock", NoBlock, << >>))
    /\ UNCHANGED <<currentTextColor, currentBgColor, hasSelection,
                   activeBlockId>>
    /\ MenuFrame

\* Horizontal divider: the item is never disabled
InsertDividerClick ==
    /\ isOpen
    /\ handleMenuItemClick(Call("onInsertDivider", NoBlock, << >>))
    /\ UNCHANGED <<currentTextColor, currentBgColor, hasSelection,
                   activeBlockId>>
    /\ MenuFrame

\* keydown listener, registered while the menu is open: Escape
EscapeKey ==
    /\ isOpen
    /\ CloseMenu
    /\ calls' = << >>
    /\ UNCHANGED <<currentTextColor, currentBgColor, hasSelection,
                   activeBlockId>>
    /\ MenuFrame

\* mousedown listener, registered while the menu is open: a mousedown
\* outside menuRef
ClickOutside ==
    /\ isOpen
    /\ CloseMenu
    /\ calls' = << >>
    /\ UNCHANGED <<currentTextColor, currentBgColor, hasSelection,
                   activeBlockId>>
    /\ MenuFrame

\* the backdrop of the bottom sheet, rendered on a mobile window
BackdropClick ==
    /\ isOpen
    /\ isMobile
    /\ CloseMenu
    /\ calls' = << >>
    /\ UNCHANGED <<currentTextColor, currentBgColor, hasSelection,
                   activeBlockId>>
    /\ MenuFrame

\* a drag on the bottom sheet; dismisses is dy > 0 && (my > 150 || vy > 0.5)
SheetDrag(dismisses) ==
    /\ isOpen
    /\ isMobile
    /\ IF dismisses THEN CloseMenu
       ELSE UNCHANGED <<isOpen, activeSubmenu, pointer>>
    /\ calls' = << >>
    /\ UNCHANGED <<currentTextColor, currentBgColor, hasSelection,
                   activeBlockId>>
    /\ MenuFrame

\* the editor gives the menu other props: the selection appears or goes,
\* a block becomes active or none is
PropsChange(selection, active) ==
    /\ <<selection, active>> # <<hasSelection, activeBlockId>>
    /\ hasSelection' = selection
    /\ activeBlockId' = active
    /\ calls' = << >>
    /\ UNCHANGED <<isOpen, activeSubmenu, currentTextColor, currentBgColor,
                   pointer>>
    /\ MenuFrame

\* the menu mounted and closed in a window of any size, with the useMobile
\* hook it calls
MenuInit ==
    /\ MenuIdle
    /\ MobileInit

MenuNext ==
    \/ TriggerClick
    \/ \E row \in ColorRows : RowMouseEnter(row)
    \/ RowMouseLeave
    \/ \E row \in ColorRows : RowClick(row)
    \/ \E row \in ColorRows : \E color \in Palette(row) :
           ColorClick(row, color)
    \/ \E alignment \in Alignments : AlignClick(alignment)
    \/ DuplicateClick
    \/ DeleteClick
    \/ InsertDividerClick
    \/ EscapeKey
    \/ ClickOutside
    \/ BackdropClick
    \/ \E dismisses \in BOOLEAN : SheetDrag(dismisses)
    \/ \E selection \in BOOLEAN, active \in {NoBlock, 1} :
           PropsChange(selection, active)
    \/ \E size \in WindowSizes : WindowResize(size)
    \/ \E t \in 1..MaxTimers : TimerFires(t)

MenuSpecInit == MenuInit /\ EditorIdle /\ FormatIdle /\ DragIdle

MenuSpec == MenuSpecInit /\ [][MenuNext]_vars

\* ------------------------------------------------------------------------
\* Properties of the editing surface
\* ------------------------------------------------------------------------
Enter == Key("Enter", FALSE)
ArrowUp == Key("ArrowUp", FALSE)
ArrowDown == Key("ArrowDown", FALSE)
\* the blocks of the loaded document; any other id was handed out by a Split
InitialIds == {1, 2, 3}

\* the last handler sent content to the store
ContentSent ==
    \E i \in 1..Len(calls) :
        calls[i].op \in {"onContentChange", "updateNestedBlock"}

\* an input event happened in this step (edits counts them)
InputEvent == edits' # edits

\* this step split block id at offset k into id and a new block of the
\* given type, placed right after id and made active
SplitDone(id, k, type) ==
    /\ nextId \notin DOMAIN blocks
    /\ DOMAIN blocks' = DOMAIN blocks \cup {nextId}
    /\ blocks'[id].content = SubSeq(blocks[id].content, 1, k)
    /\ blocks'[nextId].content =
           SubSeq(blocks[id].content, k + 1, Len(blocks[id].content))
    /\ blocks'[nextId].type = type
    /\ blocks'[nextId].parentId = blocks[id].parentId
    /\ IF blocks[id].parentId = NoBlock
       THEN rootOrder' =
                InsertAt(rootOrder, IndexOf(rootOrder, id) + 1, nextId)
       ELSE blocks'[blocks[id].parentId].children =
                LET seq == blocks[blocks[id].parentId].children
                IN  InsertAt(seq, IndexOf(seq, id) + 1, nextId)
    /\ activeBlockId' = nextId

\* this step is the key event e in the root block id: ParagraphBlock hands
\* it to onKeyDown
RootKey(id, e) ==
    /\ domFocus = id
    /\ calls' # << >>
    /\ calls'[1] = Call("onKeyDown", id, <<e.key>>)

\* this step made a root text block active
BecomesActive ==
    /\ activeBlockId' # activeBlockId
    /\ activeBlockId' \in DOMAIN innerHTML'
    /\ blocks'[activeBlockId'].parentId = NoBlock

\* C6 (as stated): between checkpoints no input event on an editable block
\* surface, root or nested, sends a content update to the store.
C6_NoUpdatePerInput ==
    [][InputEvent => (~ContentSent' /\ blocks' = blocks)]_vars

\* C6 (amended): a nested block's content reaches the store only in its
\* blur handler, when the element that has the focus loses it, and never on
\* an input event; a root block sends its content to the store on every
\* input event, with one onContentChange call carrying the buffer.
C6_CommitPoints ==
    [][/\ \A i \in 1..Len(calls') :
              calls'[i].op = "updateNestedBlock" =>
                  /\ ~InputEvent
                  /\ domFocus' # domFocus
                  /\ IsNestedText(domFocus)
                  /\ calls'[i].id = domFocus
                  /\ calls'[i].content = innerHTML[domFocus]
       /\ (InputEvent /\ IsNestedText(domFocus)) =>
              (calls' = << >> /\ blocks' = blocks)
       /\ (InputEvent /\ IsParagraph(domFocus)) =>
              /\ calls' = <<Call("onContentChange", domFocus,
                                 innerHTML'[domFocus])>>
              /\ blocks'[domFocus].content = innerHTML'[domFocus]
      ]_vars

\* an input event has left a nested block's buffer ahead of the store
C6_Witness ==
    /\ edits > 0
    /\ IsNestedText(domFocus)
    /\ innerHTML[domFocus] # blocks[domFocus].content
    /\ calls = << >>

C8_CursorByIntent ==
    [][\A id \in 1..MaxBlocks :
          /\ ((RootKey(id, Enter) \/ RootKey(id, ArrowDown))
                  /\ BecomesActive) =>
                 (domFocus' = activeBlockId' /\ cursor' = 0)
          /\ (RootKey(id, ArrowUp) /\ BecomesActive) =>
                 /\ domFocus' = activeBlockId'
                 /\ cursor' = Len(innerHTML'[activeBlockId'])]_vars

\* C9: at most one rendered block is shown as active, and after a focus
\* event on a root or a nested block the active block is the block that was
\* focused last.
C9_OneActive ==
    /\ Cardinality(ShownActive) <= 1
    /\ (calls # << >>
            /\ calls[Len(calls)].op \in {"onFocus", "setActiveBlock"}) =>
           /\ domFocus # NoBlock
           /\ activeBlockId = domFocus
           /\ ShownActive = {domFocus}

\* the nested block was focused while a root block was the active one
C9_Witness ==
    /\ IsNestedText(domFocus)
    /\ calls # << >>
    /\ calls[Len(calls)].op = "setActiveBlock"
    /\ activeBlockId = domFocus
    /\ \E b \in DOMAIN blocks : IsParagraph(b)

\* C10: the document always has at least one root block; the toolbar's
\* Delete block item, used on the sole remaining root block, is rejected
\* with InvariantViolation and leaves the document unchanged.
C10_RootNeverEmpty ==
    /\ [](Len(rootOrder) >= 1)
    /\ [][(DeleteBlockItemClick /\ IsRoot(activeBlockId)
               /\ Len(rootOrder) = 1) =>
              /\ lastResult' = "InvariantViolation"
              /\ rootOrder' = rootOrder
              /\ blocks' = blocks
              /\ nextId' = nextId
              /\ activeBlockId' = activeBlockId]_vars

\* Delete block was used on the sole root block and was rejected
C10_Witness ==
    /\ Len(rootOrder) = 1
    /\ activeBlockId = rootOrder[1]
    /\ lastResult = "InvariantViolation"
    /\ calls = <<Call("onDeleteBlock", rootOrder[1], << >>)>>

\* ------------------------------------------------------------------------
\* Properties of a NestedBlock (NestedSpec)
\* ------------------------------------------------------------------------
\* C11: toggling the checkbox of a Task block changes only the checked
\* property: checked takes the new state of the checkbox, every other
\* property key keeps its value, and the content of the block stays.
C11_CheckboxOnlyChecked ==
    [][\A id \in 1..MaxBlocks :
          CheckboxChange(id) =>
              LET old == blocks[id].properties
                  new == blocks'[id].properties
              IN  /\ DOMAIN new = DOMAIN old \cup {"checked"}
                  /\ new["checked"] = ~CheckboxShown(old)
                  /\ \A key \in DOMAIN old \ {"checked"} :
                         new[key] = old[key]
                  /\ blocks'[id].content = blocks[id].content]_vars

\* the checkbox of a Task with another property and some content was
\* ticked
C11_Witness ==
    \E id \in DOMAIN blocks :
        /\ calls = <<Call("updateNestedBlock", id,
                          [properties |-> blocks[id].properties])>>
        /\ CheckboxShown(blocks[id].properties)
        /\ "color" \in DOMAIN blocks[id].properties
        /\ blocks[id].content # << >>

\* ------------------------------------------------------------------------
\* Properties of a drag (DragSpec)
\* ------------------------------------------------------------------------
\* C12: a self-drop is a no-op: the block being dragged never shows a drop
\* indicator, and a release over itself leaves the block order unchanged.
C12_SelfDropNoOp ==
    /\ [](\A b \in Range(rootOrder) : isDragging(b) => ~showDropIndicator(b))
    /\ [][(DragEnd /\ dragOver = dragActive) => rootOrder' = rootOrder]_vars

\* the dragged block is hovered over its own bottom half
C12_Witness ==
    /\ dragActive # NoBlock
    /\ dragOver = dragActive
    /\ pointerHalf = "bottom"
    /\ isOver(dragActive)

\* C13: the drop resolves to above the hovered block when the pointer is
\* in its top half and to below it otherwise, and the drop indicator shown
\* on the hovered block is on that side.
C13_IndicatorOnDropSide ==
    \A b \in Range(rootOrder) :
        showDropIndicator(b) => IndicatorSide(b) = ResolvedSide

\* sequence t holds the elements of sequence s, each once
IsPermutation(s, t) ==
    /\ Len(s) = Len(t)
    /\ Range(s) = Range(t)
    /\ \A i, j \in 1..Len(t) : t[i] = t[j] => i = j

\* C14: a drag reorders without loss: the order after it is a permutation
\* of the order before it; in [A, B, C] dragging A below C gives [B, C, A]
\* and dragging A back above B gives [A, B, C] again.
C14_ReorderLossless ==
    /\ [](orderBefore # << >> => IsPermutation(orderBefore, rootOrder))
    /\ [][(DragEnd /\ rootOrder = <<1, 2, 3>> /\ dragActive = 1
               /\ dragOver = 3 /\ pointerHalf = "bottom") =>
              rootOrder' = <<2, 3, 1>>]_vars
    /\ [][(DragEnd /\ rootOrder = <<2, 3, 1>> /\ dragActive = 1
               /\ dragOver = 2 /\ pointerHalf = "top") =>
              rootOrder' = <<1, 2, 3>>]_vars

\* A was dragged back from [B, C, A] to [A, B, C]
C14_Witness ==
    /\ dragActive = NoBlock
    /\ orderBefore = <<2, 3, 1>>
    /\ rootOrder = <<1, 2, 3>>

\* ------------------------------------------------------------------------
\* More properties of the formatter (FormatSpec)
\* ------------------------------------------------------------------------
\* C15: format(s).changed is true exactly when the converted string differs
\* from s, for the input and for the formatter's own output given back to it.
C15_ChangedIffDiffers ==
    /\ fpc \in {"formatted", "reformatted"} =>
           (first.changed <=> first.converted # html)
    /\ fpc = "reformatted" =>
           (second.changed <=> second.converted # first.converted)

\* a string the formatter rewrote, and its output rewritten again
C15_Witness ==
    /\ fpc = "reformatted"
    /\ first.changed
    /\ first.converted # html
    /\ second.changed

\* ------------------------------------------------------------------------
\* More properties of the editing surface (Spec)
\* ------------------------------------------------------------------------
\* C16: every input event in a paragraph calls onContentChange exactly once,
\* with the block's id and the buffer as the handler leaves it: the
\* converted string when the formatter changed the user's edit, the edit
\* untouched otherwise.
C16_OneChangePerInput ==
    [][\A id \in 1..MaxBlocks :
          (InputEvent /\ domFocus = id /\ IsParagraph(id)) =>
              \E e \in Edited(innerHTML[id], cursor, ParaChars) :
                  LET r == convertInlineMarkdown(e.html)
                  IN  /\ innerHTML'[id] =
                             (IF r.converted # e.html THEN r.converted
                              ELSE e.html)
                      /\ Len(calls') = 1
                      /\ calls'[1].op = "onContentChange"
                      /\ calls'[1].id = id
                      /\ calls'[1].content = innerHTML'[id]]_vars

\* an input event whose edit the formatter rewrote has been handled
C16_Witness ==
    /\ edits > 0
    /\ IsParagraph(domFocus)
    /\ Len(calls) = 1
    /\ calls[1].op = "onContentChange"
    /\ \E i \in 1..Len(innerHTML[domFocus]) :
           innerHTML[domFocus][i] = CodeOpen

\* ------------------------------------------------------------------------
\* More properties of a NestedBlock (NestedSpec)
\* ------------------------------------------------------------------------
\* the nested block d, which had the focus, gets its blur event in this step
NestedBlurOf(d) ==
    /\ IsNestedText(d)
    /\ domFocus = d
    /\ domFocus' # d
    /\ d \in DOMAIN blocks'

\* this step called updateNestedBlock with the content c for block d
ContentCommitted(d, c) ==
    \E i \in 1..Len(calls') : calls'[i] = Call("updateNestedBlock", d, c)

\* C17: the blur of a nested block calls updateNestedBlock exactly when the
\* buffer differs from the content last committed (the content at mount
\* until a blur commits), and the buffer is then the content last
\* committed, so that a second blur with no edit in between calls nothing.
C17_BlurCommitsOnChange ==
    [][\A d \in 1..MaxBlocks :
          NestedBlurOf(d) =>
              /\ ContentCommitted(d, innerHTML[d])
                     <=> innerHTML[d] # initialContentRef[d]
              /\ \A i \in 1..Len(calls') :
                     calls'[i].op = "updateNestedBlock" =>
                         calls'[i] = Call("updateNestedBlock", d, innerHTML[d])
              /\ initialContentRef'[d] = innerHTML[d]
              /\ innerHTML'[d] = innerHTML[d]]_vars

\* a blur has committed an edited buffer
C17_Witness ==
    /\ domFocus = NoBlock
    /\ edits > 0
    /\ \E d \in DOMAIN initialContentRef :
           /\ calls = <<Call("updateNestedBlock", d, innerHTML[d])>>
           /\ initialContentRef[d] = innerHTML[d]

\* C18: the buffer of a nested block is written from the record only when
\* the block mounts: no later change of the record, of its content or of
\* its properties, changes the buffer, whatever the buffer holds.
C18_BufferWrittenOnce ==
    [][\A d \in DOMAIN innerHTML :
          (IsNestedText(d) /\ d \in DOMAIN blocks' /\ blocks'[d] # blocks[d])
              => innerHTML'[d] = innerHTML[d]]_vars

\* C19: the buffer of a paragraph block is set from the content prop only
\* when the block mounts: a later change of the stored content that is not
\* the block's own input event, such as the one a split makes, leaves the
\* buffer as it is.
C19_ParagraphBufferSetAtMount ==
    [][\A b \in DOMAIN blocks' :
          /\ (b \notin DOMAIN innerHTML /\ b \in DOMAIN innerHTML'
                 /\ blocks'[b].parentId = NoBlock)
                 => innerHTML'[b] = blocks'[b].content
          /\ (IsParagraph(b) /\ b \in DOMAIN innerHTML'
                 /\ blocks'[b].content # blocks[b].content /\ ~InputEvent)
                 => innerHTML'[b] = innerHTML[b]]_vars

\* a split has shortened the stored content of a paragraph whose buffer
\* still holds the whole text
C19_Witness ==
    /\ calls # << >>
    /\ calls[1].op = "onKeyDown"
    /\ \E b \in DOMAIN innerHTML :
           /\ blocks[b].parentId = NoBlock
           /\ calls[1].id = b
           /\ innerHTML[b] # blocks[b].content
           /\ Len(blocks[b].content) < Len(innerHTML[b])

\* C20: every key event in a nested block is stopped: whatever the key, it
\* does not reach the key handler of the container or of the editor, and
\* Enter without Shift creates no block.
C20_NestedKeysStopped ==
    /\ [](IsNestedText(domFocus) =>
              /\ ~propagated
              /\ \A i \in 1..Len(calls) : calls[i].op # "onKeyDown")
    /\ [][\A id \in 1..MaxBlocks, e \in NestedKeys :
             NestedKeyDown(id, e) =>
                 /\ ~propagated'
                 /\ calls' = << >>
                 /\ blocks' = blocks
                 /\ rootOrder' = rootOrder
                 /\ nextId' = nextId
                 /\ activeBlockId' = activeBlockId]_vars

\* Enter without Shift has been pressed in a nested block: a line break is
\* in its buffer and the document has the blocks it started with
C20_Witness ==
    /\ IsNestedText(domFocus)
    /\ \E i \in 1..Len(innerHTML[domFocus]) : innerHTML[domFocus][i] = BR
    /\ ~propagated
    /\ DOMAIN blocks = InitialIds

\* ------------------------------------------------------------------------
\* Properties of the useMobile hook (MobileSpec)
\* ------------------------------------------------------------------------
\* C24: useMobile debounces resize. At most one timeout is pending at any
\* time; a resize event cancels the pending timeout and sets a new one, so
\* that the resize events since the last expiry cause one windowSize update
\* and no second one, and that update carries the size the window has when
\* the timeout expires; after the unmount no timeout is pending and
\* windowSize is not updated any more.
C24_Debounce ==
    /\ [](/\ Cardinality(timers) <= 1
          /\ timers # {} => (timers = {timeoutId} /\ sinceResize = 0)
          /\ (mounted /\ timers = {}) => sinceResize = 1
          /\ ~mounted => timers = {})
    /\ [][/\ (mounted /\ window' # window) =>
                 (timers' = {timeoutId'} /\ timeoutId' \notin timers
                     /\ windowSize' = windowSize)
          /\ windowSize' # windowSize =>
                 (timers # {} /\ timers' = {} /\ windowSize' = window)
          /\ ~mounted => (windowSize' = windowSize /\ sinceResize' = sinceResize)
         ]_vars

\* after two resize events the timeout the last one set has expired and has
\* given windowSize the size of the window, a phone's
C24_Witness ==
    /\ mounted
    /\ nextTimer >= 4
    /\ timers = {}
    /\ sinceResize = 1
    /\ timeoutId = 3
    /\ windowSize = window
    /\ windowSize.width < BREAKPOINTS_mobile

\* ------------------------------------------------------------------------
\* Properties of the toolbar More menu (MenuSpec)
\* ------------------------------------------------------------------------
\* C21: whenever the More menu is closed no submenu is active
\* (activeSubmenu is null).
C21_ClosedNoSubmenu ==
    ~isOpen => activeSubmenu = NoSubmenu

\* the callbacks of an action item, and of a color button
ItemCallbacks ==
    {"onAlign", "onDuplicateBlock", "onDeleteBlock", "onInsertDivider"}

\* this step invoked the callback op
Invoked(op) == \E i \in 1..Len(calls') : calls'[i].op = op

\* C22: the More menu invokes onDuplicateBlock and onDeleteBlock only while
\* activeBlockId is set, and onAlign, onTextColor and onBackgroundColor only
\* while hasSelection is true.
C22_CallbacksGuarded ==
    [][/\ (Invoked("onDuplicateBlock") \/ Invoked("onDeleteBlock"))
              => activeBlockId # NoBlock
       /\ (Invoked("onAlign") \/ Invoked("onTextColor")
              \/ Invoked("onBackgroundColor"))
              => hasSelection]_vars

\* a color of the text color submenu has just been picked, with text
\* selected and no block active
C22_Witness ==
    /\ calls = <<Call("onTextColor", NoBlock, <<currentTextColor>>)>>
    /\ currentTextColor # NoColor
    /\ hasSelection
    /\ activeBlockId = NoBlock
    /\ isOpen

\* C23: a click on an enabled action item (an alignment, Duplicate block,
\* Delete block, Horizontal divider) invokes the callback of that item
\* exactly once and leaves the menu closed with no submenu active.
C23_ItemClickCloses ==
    [][/\ (\E op \in ItemCallbacks : Invoked(op)) =>
              /\ Len(calls') = 1
              /\ ~isOpen'
              /\ activeSubmenu' = NoSubmenu
       /\ \A alignment \in Alignments :
              AlignClick(alignment) =>
                  calls' = <<Call("onAlign", NoBlock, <<alignment>>)>>
       /\ DuplicateClick => calls' = <<Call("onDuplicateBlock", NoBlock, << >>)>>
       /\ DeleteClick => calls' = <<Call("onDeleteBlock", NoBlock, << >>)>>
       /\ InsertDividerClick =>
              calls' = <<Call("onInsertDivider", NoBlock, << >>)>>]_vars

\* an alignment item has been clicked in the bottom sheet
C23_Witness ==
    /\ calls = <<Call("onAlign", NoBlock, <<"Center">>)>>
    /\ ~isOpen
    /\ activeSubmenu = NoSubmenu
    /\ isMobile
    /\ hasSelection

====
